---- MODULE Spec2Model ----
(***************************************************************************)
(* One session (ClientState) of the voice-assistant orchestrator: the      *)
(* message reader (handleClient), the VAD event loop                       *)
(* (startProcessingVadEvents) and the response pipelines (processAudio)    *)
(* run as concurrent tasks over the session's fields.                      *)
(*                                                                         *)
(* Granularity: a step of a task is one access to a field other tasks      *)
(* also access (state, audioBuffer, cancelFuncs, transcript, vadActive,    *)
(* triggered, the event channel) or the return of one blocking call,       *)
(* together with the task-local statements that follow it.  The frames a   *)
(* task writes are kept per writing task, in its write order.              *)
(***************************************************************************)
EXTENDS Integers, Sequences, FiniteSets, TLC

VARIABLES
    state,        \* cs.state
    audioBuffer,  \* cs.audioBuffer: sequence of chunks
    cancelFuncs,  \* cs.cancelFuncs: key -> pipeline whose context the handle cancels
    ctxDone,      \* pipelines whose context has been cancelled
    transcript,   \* cs.transcript
    vadActive,    \* cs.vadActive
    triggered,    \* cs.triggered
    absent,       \* which collaborator of App is nil ("none": all are present)
    eventChan,    \* the detector's event channel
    reader,       \* the message reader task: [pc, chunk, cmd, seen]
    evpc,         \* the event loop task's position
    pipes,        \* the processAudio goroutines, by launch number
    out,          \* per task, the frames it has written to the connection
    sttCalls,     \* audio batches handed to Transcribe, in call order
    ttsCalls,     \* per pipeline, the texts handed to Synthesize, in call order
    nEv,          \* detector events emitted so far
    nIn,          \* inbound frames read so far
    stopped,      \* history: pipelines in flight throughout a handled "stop"
    quiet,        \* history: no event or command since the last handled "stop"
    closed,       \* cs.closed
    connOpen,     \* cs.conn has not been closed
    clients,      \* app.clients: the connections of the registered sessions
    chanOpen,     \* the detector's event channel has not been closed
    app,          \* App.Close's position
    peerIn,       \* audio chunks another session has sent to the detector
    vadIn,        \* the chunks this session has sent to the detector
    connCloses,   \* calls of cs.conn.Close()
    writing,      \* per task, whether it is inside cs.conn.WriteMessage
    vad           \* the detector client: its receiver and its context

vars == <<state, audioBuffer, cancelFuncs, ctxDone, transcript, vadActive,
          triggered, absent, eventChan, reader, evpc, pipes, out, sttCalls,
          ttsCalls, nEv, nIn, stopped, quiet, closed, connOpen, clients,
          chanOpen, app, peerIn, vadIn, connCloses, writing, vad>>

\* the end of the session's life and the application around it
appVars == <<closed, connOpen, clients, chanOpen, app, peerIn, vadIn,
            connCloses, writing, vad>>

----------------------------------------------------------------------------
(* Bounds of the model *)

MaxPipelines == 2
MaxEvents == 3
MaxInbound == 2
MaxQueued == 1
MaxOverflow == 2
MaxPeerAudio == 1
BufChunks == 3
BufEnds == 2
E2EChunks == 3
ResetCount == 2

(* Program constants *)

EventChanCap == 100

StateIdle == "IDLE"
StateTriggered == "TRIGGERED"
StateProcessing == "PROCESSING"
StateSpeaking == "SPEAKING"
StateError == "ERROR"
StateDisconnected == "DISCONNECTED"

ReaderTask == 0
LoopTask == -1
Pipes == 1..MaxPipelines
Tasks == {ReaderTask, LoopTask} \cup Pipes

----------------------------------------------------------------------------
(* Text is a sequence of one-character strings. *)

Terminators == {".", "!", "?"}

\* strings.Contains(s, ".") || strings.Contains(s, "!") || strings.Contains(s, "?")
ContainsTerminator(s) == \E i \in 1..Len(s) : s[i] \in Terminators

\* strings.LastIndexAny(s, ".!?") + 1: the length of the prefix that ends with
\* the last terminator, 0 when there is none.
EndIdx(s) ==
    IF ContainsTerminator(s)
    THEN CHOOSE i \in 1..Len(s) :
            /\ s[i] \in Terminators
            /\ \A j \in (i+1)..Len(s) : s[j] \notin Terminators
    ELSE 0

\* if endIdx > 0 && endIdx < len(currentSentence)
Splits(s) == ContainsTerminator(s) /\ EndIdx(s) > 0 /\ EndIdx(s) < Len(s)

\* a variant of SentenceOf that leaves out the terminator
SentenceOfNoMark(s) == SubSeq(s, 1, EndIdx(s) - 1)

\* sentence := currentSentence[:endIdx]
SentenceOf(s) == SubSeq(s, 1, EndIdx(s))

\* a variant of RestOf that also drops the character after the terminator
RestOfSkipOne(s) == SubSeq(s, EndIdx(s) + 2, Len(s))

\* currentSentence = currentSentence[endIdx:]
RestOf(s) == SubSeq(s, EndIdx(s) + 1, Len(s))

----------------------------------------------------------------------------
(* Outbound frames *)

StatusMessage(s, d) == [type |-> "status", status |-> s, detail |-> d]

\* a variant of TranscriptMessage that marks the transcript as interim
TranscriptMessageInterim(t) ==
    [type |-> "transcript", text |-> t, isFinal |-> FALSE]

TranscriptMessage(t) == [type |-> "transcript", text |-> t, isFinal |-> TRUE]
ResponseMessage(t) == [type |-> "response", text |-> t]
\* a binary frame: the audio synthesized for text t
AudioMessage(t) == [type |-> "audio", text |-> t]

\* cs.conn.WriteMessage by task `by`: on a closed connection it returns an
\* error, which is logged
WriteMessage(o, by, m) == IF connOpen THEN [o EXCEPT ![by] = Append(@, m)] ELSE o

\* a variant of ResponseText that sends the running buffer
ResponseTextRunning(resp, cur) == cur

\* the text of the incremental reply notification for fragment resp
ResponseText(resp, cur) == resp

----------------------------------------------------------------------------
(* Audio buffer *)

\* a variant of BufAppend that puts the chunk at the front
BufPrepend(buf, c) == <<c>> \o buf

\* cs.audioBuffer = append(cs.audioBuffer, dataCopy)
BufAppend(buf, c) == Append(buf, c)

\* a variant of BufDrainBatch that leaves the newest chunk out
BufDrainButLast(buf) == SubSeq(buf, 1, Len(buf) - 1)

\* audioBuffer := cs.audioBuffer
BufDrainBatch(buf) == buf

\* cs.audioBuffer = make([][]byte, 0)
BufDrainRest(buf) == <<>>

----------------------------------------------------------------------------
(* Cancellation registry *)

NoCancelFuncs == [k \in {} |-> 0]

\* cs.cancelFuncs[key] = cancel
AddCancelFunc(funcs, key, p) ==
    [k \in DOMAIN funcs \cup {key} |-> IF k = key THEN p ELSE funcs[k]]

\* a variant of RemoveCancelFunc that leaves the handle registered
RemoveCancelFuncNot(funcs, key) == funcs

\* delete(cs.cancelFuncs, key)
RemoveCancelFunc(funcs, key) ==
    [k \in DOMAIN funcs \ {key} |-> funcs[k]]

\* a variant of Registered in which cancelAllOperations cancels nothing
RegisteredNone == {}

\* the contexts cancelAllOperations cancels
Registered == {cancelFuncs[k] : k \in DOMAIN cancelFuncs}

----------------------------------------------------------------------------
(* Collaborators and tasks *)

\* the transcript sttClient.Transcribe returns
TranscribeText == "Hello, how can I help you today?"

\* the fragment streams llmClient.GetResponse may deliver
Scripts == { << <<"a", ".", "b">>, <<"c">> >> }

NoPipe == [pc |-> "none", audio |-> <<>>, script |-> <<>>, pos |-> 0,
           cur |-> <<>>, resp |-> <<>>, sentence |-> <<>>, detail |-> ""]

IdleReader == [pc |-> "read", chunk |-> 0, cmd |-> "", seen |-> {}]

\* a pipeline that has executed its first statement and has not returned
Running(p) == pipes[p].pc \notin {"none", "start", "done"}

----------------------------------------------------------------------------
(* Initial state: NewClientState, then handleClient up to its read loop *)

Init ==
    /\ closed = FALSE
    /\ connOpen = TRUE
    /\ clients = {"conn"}
    /\ chanOpen = TRUE
    /\ app = "up"
    /\ peerIn = 0
    /\ vadIn = <<>>
    /\ connCloses = 0
    /\ writing = [t \in Tasks |-> "no"]
    /\ vad = [rx |-> "idle", event |-> "", cancelled |-> FALSE]
    /\ state = StateIdle
    /\ audioBuffer = <<>>
    /\ cancelFuncs = NoCancelFuncs
    /\ ctxDone = {}
    /\ transcript = ""
    /\ vadActive = FALSE
    /\ triggered = FALSE
    /\ absent \in {"none", "vad", "trigger", "stt", "llm", "tts"}
    /\ eventChan = <<>>
    /\ reader = IdleReader
    /\ evpc = IF absent = "vad" THEN "off" ELSE "wait"
    /\ pipes = [p \in Pipes |-> NoPipe]
    /\ out = WriteMessage([t \in Tasks |-> <<>>], ReaderTask,
                          StatusMessage(StateIdle, "Ready"))
    /\ sttCalls = <<>>
    /\ ttsCalls = [p \in Pipes |-> <<>>]
    /\ nEv = 0
    /\ nIn = 0
    /\ stopped = {}
    /\ quiet = FALSE

----------------------------------------------------------------------------
(* The detector integration: receiveResponses *)

\* a variant of Offer that makes room by discarding the oldest event
OfferDropOldest(ch, e) ==
    IF Len(ch) < EventChanCap THEN Append(ch, e) ELSE Append(Tail(ch), e)

\* select { case c.eventChan <- event: default: (discard) }
Offer(ch, e) == IF Len(ch) < EventChanCap THEN Append(ch, e) ELSE ch

\* receiveResponses has received a detector response with event e
Emit(e) ==
    /\ absent # "vad"
    /\ eventChan' = Offer(eventChan, e)
    /\ nEv' = nEv + 1
    /\ quiet' = FALSE
    /\ UNCHANGED <<state, audioBuffer, cancelFuncs, ctxDone, transcript,
                   vadActive, triggered, absent, reader, evpc, pipes, out,
                   sttCalls, ttsCalls, nIn, stopped,
                   appVars>>

----------------------------------------------------------------------------
(* The event loop: startProcessingVadEvents *)

\* a variant of EvStart that asks the trigger collaborator in every state
EvStartAnyState(answer) ==
    /\ evpc = "wait"
    /\ eventChan # <<>>
    /\ Head(eventChan) = "start"
    /\ eventChan' = Tail(eventChan)
    /\ vadActive' = TRUE
    /\ evpc' = IF absent # "trigger" /\ answer
               THEN "set_triggered" ELSE "wait"
    /\ quiet' = FALSE
    /\ UNCHANGED <<state, audioBuffer, cancelFuncs, ctxDone, transcript,
                   triggered, absent, reader, pipes, out, sttCalls, ttsCalls,
                   nEv, nIn, stopped,
                   appVars>>

\* case "start": cs.vadActive = true, the test of the state and the trigger
\* collaborator's answer
EvStart(answer) ==
    /\ evpc = "wait"
    /\ eventChan # <<>>
    /\ Head(eventChan) = "start"
    /\ eventChan' = Tail(eventChan)
    /\ vadActive' = TRUE
    /\ evpc' = IF state = StateIdle /\ absent # "trigger" /\ answer
               THEN "set_triggered" ELSE "wait"
    /\ quiet' = FALSE
    /\ UNCHANGED <<state, audioBuffer, cancelFuncs, ctxDone, transcript,
                   triggered, absent, reader, pipes, out, sttCalls, ttsCalls,
                   nEv, nIn, stopped,
                   appVars>>

\* cs.triggered = true; cs.setState(StateTriggered);
\* cs.sendStatus(StateTriggered, "Listening to you...")
EvSetTriggered ==
    /\ evpc = "set_triggered"
    /\ triggered' = TRUE
    /\ state' = StateTriggered
    /\ out' = WriteMessage(out, LoopTask,
                           StatusMessage(StateTriggered, "Listening to you..."))
    /\ evpc' = "trig_clear"
    /\ UNCHANGED <<audioBuffer, cancelFuncs, ctxDone, transcript, vadActive,
                   absent, eventChan, reader, pipes, sttCalls, ttsCalls,
                   nEv, nIn, stopped, quiet,
                   appVars>>

\* a variant of EvTrigClear that keeps the buffered audio
EvTrigKeep ==
    /\ evpc = "trig_clear"
    /\ evpc' = "wait"
    /\ UNCHANGED <<state, audioBuffer, cancelFuncs, ctxDone, transcript,
                   vadActive, triggered, absent, eventChan, reader, pipes,
                   out, sttCalls, ttsCalls, nEv, nIn, stopped, quiet,
                   appVars>>

\* cs.audioBuffer = make([][]byte, 0)
EvTrigClear ==
    /\ evpc = "trig_clear"
    /\ audioBuffer' = <<>>
    /\ evpc' = "wait"
    /\ UNCHANGED <<state, cancelFuncs, ctxDone, transcript, vadActive,
                   triggered, absent, eventChan, reader, pipes, out, sttCalls,
                   ttsCalls, nEv, nIn, stopped, quiet,
                   appVars>>

\* the launch number of the next processAudio goroutine
NextPipe == CHOOSE p \in Pipes :
                /\ pipes[p].pc = "none"
                /\ \A q \in Pipes : q < p => pipes[q].pc # "none"

\* a variant of EvEnd that launches the pipeline in every state
EvEndAnyState ==
    /\ evpc = "wait"
    /\ eventChan # <<>>
    /\ Head(eventChan) = "end"
    /\ \E p \in Pipes : pipes[p].pc = "none"
    /\ eventChan' = Tail(eventChan)
    /\ vadActive' = FALSE
    /\ pipes' = [pipes EXCEPT ![NextPipe].pc = "start"]
    /\ quiet' = FALSE
    /\ UNCHANGED <<state, audioBuffer, cancelFuncs, ctxDone, transcript,
                   triggered, absent, reader, evpc, out, sttCalls, ttsCalls,
                   nEv, nIn, stopped,
                   appVars>>

\* case "end": cs.vadActive = false; go cs.processAudio() when the state is
\* TRIGGERED
EvEnd ==
    /\ evpc = "wait"
    /\ eventChan # <<>>
    /\ Head(eventChan) = "end"
    /\ state = StateTriggered => \E p \in Pipes : pipes[p].pc = "none"
    /\ eventChan' = Tail(eventChan)
    /\ vadActive' = FALSE
    /\ pipes' = IF state = StateTriggered
                THEN [pipes EXCEPT ![NextPipe].pc = "start"]
                ELSE pipes
    /\ quiet' = FALSE
    /\ UNCHANGED <<state, audioBuffer, cancelFuncs, ctxDone, transcript,
                   triggered, absent, reader, evpc, out, sttCalls, ttsCalls,
                   nEv, nIn, stopped,
                   appVars>>

\* case "continue"
EvContinue ==
    /\ evpc = "wait"
    /\ eventChan # <<>>
    /\ Head(eventChan) = "continue"
    /\ eventChan' = Tail(eventChan)
    /\ quiet' = FALSE
    /\ UNCHANGED <<state, audioBuffer, cancelFuncs, ctxDone, transcript,
                   vadActive, triggered, absent, reader, evpc, pipes, out,
                   sttCalls, ttsCalls, nEv, nIn, stopped,
                   appVars>>

----------------------------------------------------------------------------
(* The message reader: handleClient, handleAudioData, handleTextCommand *)

\* a variant of BuffersAudio that accepts audio in every state
BuffersAudioAlways(s) == TRUE

\* if cs.getState() == StateTriggered
BuffersAudio(s) == s = StateTriggered

\* if cs.app.vadClient != nil { cs.app.vadClient.ProcessAudio(dataCopy) }
ProcessAudio(sent, chunk) ==
    IF absent = "vad" THEN sent ELSE Append(sent, chunk)

\* a binary frame: handleAudioData up to the test of the state, and the
\* forwarding to the detector of a chunk that is not buffered
RdAudio ==
    /\ reader.pc = "read"
    /\ connOpen
    /\ nIn' = nIn + 1
    /\ IF BuffersAudio(state)
       THEN /\ reader' = [reader EXCEPT !.pc = "append", !.chunk = nIn + 1]
            /\ UNCHANGED vadIn
       ELSE /\ vadIn' = ProcessAudio(vadIn, nIn + 1)
            /\ UNCHANGED reader
    /\ UNCHANGED <<state, audioBuffer, cancelFuncs, ctxDone, transcript,
                   vadActive, triggered, absent, eventChan, evpc, pipes, out,
                   sttCalls, ttsCalls, nEv, stopped, quiet, closed, connOpen,
                   clients, chanOpen, app, peerIn, writing, vad, connCloses>>

\* cs.audioBuffer = append(cs.audioBuffer, dataCopy), then the forwarding to
\* the detector
RdAppend ==
    /\ reader.pc = "append"
    /\ audioBuffer' = BufAppend(audioBuffer, reader.chunk)
    /\ vadIn' = ProcessAudio(vadIn, reader.chunk)
    /\ reader' = IdleReader
    /\ UNCHANGED <<state, cancelFuncs, ctxDone, transcript, vadActive,
                   triggered, absent, eventChan, evpc, pipes, out, sttCalls,
                   ttsCalls, nEv, nIn, stopped, quiet, closed, connOpen,
                   clients, chanOpen, app, peerIn, writing, vad, connCloses>>

\* a variant of RdIgnored that takes the frame for a command to go idle
RdIgnoredGoesIdle ==
    /\ reader.pc = "read"
    /\ connOpen
    /\ nIn' = nIn + 1
    /\ quiet' = FALSE
    /\ state' = StateIdle
    /\ UNCHANGED <<audioBuffer, cancelFuncs, ctxDone, transcript,
                   vadActive, triggered, absent, eventChan, reader, evpc,
                   pipes, out, sttCalls, ttsCalls, nEv, stopped,
                   appVars>>

\* a text frame that does not parse, or whose action is neither reset nor stop
RdIgnored ==
    /\ reader.pc = "read"
    /\ connOpen
    /\ nIn' = nIn + 1
    /\ quiet' = FALSE
    /\ UNCHANGED <<state, audioBuffer, cancelFuncs, ctxDone, transcript,
                   vadActive, triggered, absent, eventChan, reader, evpc,
                   pipes, out, sttCalls, ttsCalls, nEv, stopped,
                   appVars>>

\* a variant of RdReset that cancels the registered operations first
RdResetCancels ==
    /\ reader.pc = "read"
    /\ connOpen
    /\ nIn' = nIn + 1
    /\ ctxDone' = ctxDone \cup Registered
    /\ cancelFuncs' = NoCancelFuncs
    /\ state' = StateIdle
    /\ reader' = [reader EXCEPT !.pc = "rs_fields", !.cmd = "reset"]
    /\ quiet' = FALSE
    /\ UNCHANGED <<audioBuffer, transcript, vadActive,
                   triggered, absent, eventChan, evpc, pipes, out, sttCalls,
                   ttsCalls, nEv, stopped,
                   appVars>>

\* case "reset": resetState's cs.setState(StateIdle)
RdReset ==
    /\ reader.pc = "read"
    /\ connOpen
    /\ nIn' = nIn + 1
    /\ state' = StateIdle
    /\ reader' = [reader EXCEPT !.pc = "rs_fields", !.cmd = "reset"]
    /\ quiet' = FALSE
    /\ UNCHANGED <<audioBuffer, cancelFuncs, ctxDone, transcript, vadActive,
                   triggered, absent, eventChan, evpc, pipes, out, sttCalls,
                   ttsCalls, nEv, stopped,
                   appVars>>

\* case "stop": cancelAllOperations
RdStop ==
    /\ reader.pc = "read"
    /\ connOpen
    /\ nIn' = nIn + 1
    /\ ctxDone' = ctxDone \cup Registered
    /\ cancelFuncs' = NoCancelFuncs
    /\ reader' = [reader EXCEPT !.pc = "rs_state", !.cmd = "stop",
                                !.seen = {p \in Pipes : Running(p)}]
    /\ quiet' = FALSE
    /\ UNCHANGED <<state, audioBuffer, transcript, vadActive, triggered,
                   absent, eventChan, evpc, pipes, out, sttCalls, ttsCalls,
                   nEv, stopped,
                   appVars>>

\* "stop": resetState's cs.setState(StateIdle)
RsState ==
    /\ reader.pc = "rs_state"
    /\ state' = StateIdle
    /\ reader' = [reader EXCEPT !.pc = "rs_fields"]
    /\ UNCHANGED <<audioBuffer, cancelFuncs, ctxDone, transcript, vadActive,
                   triggered, absent, eventChan, evpc, pipes, out, sttCalls,
                   ttsCalls, nEv, nIn, stopped, quiet,
                   appVars>>

\* a variant of RsFields that keeps the transcript
RsFieldsKeepTranscript ==
    /\ reader.pc = "rs_fields"
    /\ vadActive' = FALSE
    /\ triggered' = FALSE
    /\ reader' = [reader EXCEPT !.pc = "rs_buffer"]
    /\ UNCHANGED <<state, audioBuffer, cancelFuncs, ctxDone, transcript,
                   absent, eventChan, evpc, pipes, out, sttCalls, ttsCalls,
                   nEv, nIn, stopped, quiet,
                   appVars>>

\* cs.transcript = ""; cs.vadActive = false; cs.triggered = false
RsFields ==
    /\ reader.pc = "rs_fields"
    /\ transcript' = ""
    /\ vadActive' = FALSE
    /\ triggered' = FALSE
    /\ reader' = [reader EXCEPT !.pc = "rs_buffer"]
    /\ UNCHANGED <<state, audioBuffer, cancelFuncs, ctxDone, absent,
                   eventChan, evpc, pipes, out, sttCalls, ttsCalls, nEv, nIn,
                   stopped, quiet,
                   appVars>>

\* cs.audioBuffer = make([][]byte, 0); cs.sendStatus(StateIdle, "Ready");
\* the command has been handled
RsBuffer ==
    /\ reader.pc = "rs_buffer"
    /\ audioBuffer' = <<>>
    /\ out' = WriteMessage(out, ReaderTask, StatusMessage(StateIdle, "Ready"))
    /\ reader' = IdleReader
    /\ stopped' = IF reader.cmd = "stop"
                  THEN stopped \cup {p \in reader.seen : Running(p)}
                  ELSE stopped
    /\ quiet' = IF reader.cmd = "stop" THEN TRUE ELSE quiet
    /\ UNCHANGED <<state, cancelFuncs, ctxDone, transcript, vadActive,
                   triggered, absent, eventChan, evpc, pipes, sttCalls,
                   ttsCalls, nEv, nIn,
                   appVars>>

----------------------------------------------------------------------------
(* The end of the session: handleClient's deferred removeClient, close,    *)
(* and App.Close                                                           *)

\* ReadMessage returns an error and the read loop ends; removeClient looks
\* the session up and close starts with cancelAllOperations, unless the
\* session is closed already
RdError ==
    /\ reader.pc = "read"
    /\ IF "conn" \in clients /\ ~closed
       THEN /\ ctxDone' = ctxDone \cup Registered
            /\ cancelFuncs' = NoCancelFuncs
            /\ reader' = [reader EXCEPT !.pc = "close_conn"]
            /\ UNCHANGED clients
       ELSE /\ clients' = clients \ {"conn"}
            /\ reader' = [reader EXCEPT !.pc = "gone"]
            /\ UNCHANGED <<ctxDone, cancelFuncs>>
    /\ UNCHANGED <<state, audioBuffer, transcript, vadActive, triggered,
                   absent, eventChan, evpc, pipes, out, sttCalls, ttsCalls,
                   nEv, nIn, stopped, quiet, closed, connOpen, chanOpen, app,
                   peerIn, writing, vad, vadIn, connCloses>>

\* cs.conn.Close(); cs.closed = true; delete(app.clients, conn)
CloseConn ==
    /\ reader.pc = "close_conn"
    /\ connOpen' = FALSE
    /\ connCloses' = connCloses + 1
    /\ closed' = TRUE
    /\ clients' = clients \ {"conn"}
    /\ reader' = [reader EXCEPT !.pc = "gone"]
    /\ UNCHANGED <<state, audioBuffer, cancelFuncs, ctxDone, transcript,
                   vadActive, triggered, absent, eventChan, evpc, pipes, out,
                   sttCalls, ttsCalls, nEv, nIn, stopped, quiet, chanOpen,
                   app, peerIn, writing, vad, vadIn>>

\* handleWebSocket registers another connection under clientsMutex
PeerConnect ==
    /\ reader.pc # "close_conn"
    /\ "peer" \notin clients
    /\ clients' = clients \cup {"peer"}
    /\ UNCHANGED <<state, audioBuffer, cancelFuncs, ctxDone, transcript,
                   vadActive, triggered, absent, eventChan, reader, evpc,
                   pipes, out, sttCalls, ttsCalls, nEv, nIn, stopped, quiet,
                   closed, connOpen, chanOpen, app, peerIn, writing, vad, vadIn,
                   connCloses>>

\* a variant of AppCloseClients that does not wait for clientsMutex
AppCloseClientsNoLock ==
    /\ app = "up"
    /\ IF "conn" \in clients /\ ~closed
       THEN /\ ctxDone' = ctxDone \cup Registered
            /\ cancelFuncs' = NoCancelFuncs
            /\ connOpen' = FALSE
            /\ connCloses' = connCloses + 1
            /\ closed' = TRUE
       ELSE UNCHANGED <<ctxDone, cancelFuncs, connOpen, connCloses, closed>>
    /\ clients' = {}
    /\ app' = "closing"
    /\ UNCHANGED <<state, audioBuffer, transcript, vadActive, triggered,
                   absent, eventChan, reader, evpc, pipes, out, sttCalls,
                   ttsCalls, nEv, nIn, stopped, quiet, chanOpen, peerIn, writing, vad,
                   vadIn>>

\* App.Close under clientsMutex: client.close() and delete for every
\* registered session
AppCloseClients ==
    /\ app = "up"
    /\ reader.pc # "close_conn"
    /\ IF "conn" \in clients /\ ~closed
       THEN /\ ctxDone' = ctxDone \cup Registered
            /\ cancelFuncs' = NoCancelFuncs
            /\ connOpen' = FALSE
            /\ connCloses' = connCloses + 1
            /\ closed' = TRUE
       ELSE UNCHANGED <<ctxDone, cancelFuncs, connOpen, connCloses, closed>>
    /\ clients' = {}
    /\ app' = "closing"
    /\ UNCHANGED <<state, audioBuffer, transcript, vadActive, triggered,
                   absent, eventChan, reader, evpc, pipes, out, sttCalls,
                   ttsCalls, nEv, nIn, stopped, quiet, chanOpen, peerIn, writing, vad,
                   vadIn>>

\* App.Close: app.vadClient.Close(), which closes the event channel
AppCloseVad ==
    /\ app = "closing"
    /\ chanOpen' = FALSE
    /\ app' = "down"
    /\ UNCHANGED <<state, audioBuffer, cancelFuncs, ctxDone, transcript,
                   vadActive, triggered, absent, eventChan, reader, evpc,
                   pipes, out, sttCalls, ttsCalls, nEv, nIn, stopped, quiet,
                   closed, connOpen, clients, peerIn, writing, vad, vadIn, connCloses>>

\* case event, ok := <-eventChan with !ok: the channel is closed and empty
EvClosed ==
    /\ evpc = "wait"
    /\ eventChan = <<>>
    /\ ~chanOpen
    /\ evpc' = "exited"
    /\ UNCHANGED <<state, audioBuffer, cancelFuncs, ctxDone, transcript,
                   vadActive, triggered, absent, eventChan, reader, pipes,
                   out, sttCalls, ttsCalls, nEv, nIn, stopped, quiet,
                   appVars>>

----------------------------------------------------------------------------
(* Another session of the same App: it shares the detector client and its  *)
(* event channel.                                                          *)

\* the other session's handleAudioData forwards a chunk to the detector
PeerAudio ==
    /\ peerIn < MaxPeerAudio
    /\ peerIn' = peerIn + 1
    /\ UNCHANGED <<state, audioBuffer, cancelFuncs, ctxDone, transcript,
                   vadActive, triggered, absent, eventChan, reader, evpc,
                   pipes, out, sttCalls, ttsCalls, nEv, nIn, stopped, quiet,
                   closed, connOpen, clients, chanOpen, app, vadIn, writing, vad,
                   connCloses>>

\* the other session's event loop receives from the channel
PeerTake ==
    /\ eventChan # <<>>
    /\ eventChan' = Tail(eventChan)
    /\ UNCHANGED <<state, audioBuffer, cancelFuncs, ctxDone, transcript,
                   vadActive, triggered, absent, reader, evpc, pipes, out,
                   sttCalls, ttsCalls, nEv, nIn, stopped, quiet, appVars>>

----------------------------------------------------------------------------
(* The response pipeline: processAudio, run as goroutine p *)

\* cs.setState(StateProcessing);
\* cs.sendStatus(StateProcessing, "Processing your request...")
PStart(p) ==
    /\ pipes[p].pc = "start"
    /\ state' = StateProcessing
    /\ out' = WriteMessage(out, p, StatusMessage(StateProcessing,
                                                 "Processing your request..."))
    /\ pipes' = [pipes EXCEPT ![p].pc = "register"]
    /\ UNCHANGED <<audioBuffer, cancelFuncs, ctxDone, transcript, vadActive,
                   triggered, absent, eventChan, reader, evpc, sttCalls,
                   ttsCalls, nEv, nIn, stopped, quiet,
                   appVars>>

\* ctx, cancel := context.WithCancel(...); cs.addCancelFunc("processing", cancel)
PRegister(p) ==
    /\ pipes[p].pc = "register"
    /\ cancelFuncs' = AddCancelFunc(cancelFuncs, "processing", p)
    /\ pipes' = [pipes EXCEPT ![p].pc = "drain"]
    /\ UNCHANGED <<state, audioBuffer, ctxDone, transcript, vadActive,
                   triggered, absent, eventChan, reader, evpc, out, sttCalls,
                   ttsCalls, nEv, nIn, stopped, quiet,
                   appVars>>

\* the buffer is drained under its lock; then Transcribe is called, unless
\* sttClient is nil
PDrain(p) ==
    /\ pipes[p].pc = "drain"
    /\ audioBuffer' = BufDrainRest(audioBuffer)
    /\ IF absent = "stt"
       THEN /\ pipes' = [pipes EXCEPT ![p].pc = "fail",
                                      ![p].detail = "STT service unavailable"]
            /\ UNCHANGED sttCalls
       ELSE /\ pipes' = [pipes EXCEPT ![p].pc = "stt_wait",
                                      ![p].audio = BufDrainBatch(audioBuffer)]
            /\ sttCalls' = Append(sttCalls, BufDrainBatch(audioBuffer))
    /\ UNCHANGED <<state, cancelFuncs, ctxDone, transcript, vadActive,
                   triggered, absent, eventChan, reader, evpc, out, ttsCalls,
                   nEv, nIn, stopped, quiet,
                   appVars>>

\* Transcribe returns.  On success: cs.transcript = transcript;
\* cs.sendTranscript(transcript, true); then GetResponse is called, unless
\* llmClient is nil
PSttReturn(p, ok) ==
    /\ pipes[p].pc = "stt_wait"
    /\ IF ok
       THEN /\ transcript' = TranscribeText
            /\ out' = WriteMessage(out, p, TranscriptMessage(TranscribeText))
            /\ pipes' = IF absent = "llm"
                        THEN [pipes EXCEPT ![p].pc = "fail", ![p].audio = <<>>,
                                           ![p].detail = "LLM service unavailable"]
                        ELSE [pipes EXCEPT ![p].pc = "llm_wait",
                                           ![p].audio = <<>>]
       ELSE /\ pipes' = [pipes EXCEPT ![p].pc = "fail", ![p].audio = <<>>,
                                      ![p].detail = "Failed to transcribe audio"]
            /\ UNCHANGED <<transcript, out>>
    /\ UNCHANGED <<state, audioBuffer, cancelFuncs, ctxDone, vadActive,
                   triggered, absent, eventChan, reader, evpc, sttCalls,
                   ttsCalls, nEv, nIn, stopped, quiet,
                   appVars>>

\* GetResponse returns.  On success: cs.setState(StateSpeaking);
\* cs.sendStatus(StateSpeaking, "Speaking...")
PLlmReturn(p, ok, script) ==
    /\ pipes[p].pc = "llm_wait"
    /\ IF ok
       THEN /\ state' = StateSpeaking
            /\ out' = WriteMessage(out, p,
                                   StatusMessage(StateSpeaking, "Speaking..."))
            /\ pipes' = [pipes EXCEPT ![p].pc = "loop", ![p].script = script]
       ELSE /\ pipes' = [pipes EXCEPT ![p].pc = "fail",
                                      ![p].detail = "Failed to get AI response"]
            /\ UNCHANGED <<state, out>>
    /\ UNCHANGED <<audioBuffer, cancelFuncs, ctxDone, transcript, vadActive,
                   triggered, absent, eventChan, reader, evpc, sttCalls,
                   ttsCalls, nEv, nIn, stopped, quiet,
                   appVars>>

\* a variant of PFail that sends no status
PFailSilent(p) ==
    /\ pipes[p].pc = "fail"
    /\ state' = StateIdle
    /\ pipes' = [pipes EXCEPT ![p].pc = "ret", ![p].detail = ""]
    /\ UNCHANGED <<audioBuffer, cancelFuncs, ctxDone, transcript, vadActive,
                   triggered, absent, eventChan, reader, evpc, out, sttCalls,
                   ttsCalls, nEv, nIn, stopped, quiet,
                   appVars>>

\* a variant of PFail that leaves the session in the state it had
PFailKeepState(p) ==
    /\ pipes[p].pc = "fail"
    /\ out' = WriteMessage(out, p, StatusMessage(StateError, pipes[p].detail))
    /\ pipes' = [pipes EXCEPT ![p].pc = "ret", ![p].detail = ""]
    /\ UNCHANGED <<state, audioBuffer, cancelFuncs, ctxDone, transcript,
                   vadActive, triggered, absent, eventChan, reader, evpc,
                   sttCalls, ttsCalls, nEv, nIn, stopped, quiet,
                   appVars>>

\* cs.sendStatus(StateError, detail); cs.setState(StateIdle); return
PFail(p) ==
    /\ pipes[p].pc = "fail"
    /\ out' = WriteMessage(out, p, StatusMessage(StateError, pipes[p].detail))
    /\ state' = StateIdle
    /\ pipes' = [pipes EXCEPT ![p].pc = "ret", ![p].detail = ""]
    /\ UNCHANGED <<audioBuffer, cancelFuncs, ctxDone, transcript, vadActive,
                   triggered, absent, eventChan, reader, evpc, sttCalls,
                   ttsCalls, nEv, nIn, stopped, quiet,
                   appVars>>

\* case <-ctx.Done(): return
PCtxDone(p) ==
    /\ pipes[p].pc = "loop"
    /\ p \in ctxDone
    /\ pipes' = [pipes EXCEPT ![p].pc = "ret"]
    /\ UNCHANGED <<state, audioBuffer, cancelFuncs, ctxDone, transcript,
                   vadActive, triggered, absent, eventChan, reader, evpc, out,
                   sttCalls, ttsCalls, nEv, nIn, stopped, quiet,
                   appVars>>

\* case resp, ok := <-responseStream with ok: the fragment is accumulated; a
\* completed sentence is split off and handed to synthesizeAndSend, which
\* calls Synthesize unless ttsClient is nil; otherwise cs.sendResponse(resp)
PRecv(p) ==
    /\ pipes[p].pc = "loop"
    /\ pipes[p].pos < Len(pipes[p].script)
    /\ LET resp == pipes[p].script[pipes[p].pos + 1]
           acc == pipes[p].cur \o resp
       IN IF Splits(acc) /\ absent # "tts"
          THEN /\ pipes' = [pipes EXCEPT ![p].pc = "tts_wait",
                                         ![p].pos = @ + 1,
                                         ![p].resp = resp,
                                         ![p].cur = RestOf(acc),
                                         ![p].sentence = SentenceOf(acc)]
               /\ ttsCalls' = [ttsCalls EXCEPT ![p] = Append(@, SentenceOf(acc))]
               /\ UNCHANGED out
          ELSE /\ pipes' = [pipes EXCEPT ![p].pos = @ + 1,
                                         ![p].cur = IF Splits(acc)
                                                    THEN RestOf(acc) ELSE acc]
               /\ out' = WriteMessage(out, p, ResponseMessage(
                             ResponseText(resp, IF Splits(acc)
                                                THEN RestOf(acc) ELSE acc)))
               /\ UNCHANGED ttsCalls
    /\ UNCHANGED <<state, audioBuffer, cancelFuncs, ctxDone, transcript,
                   vadActive, triggered, absent, eventChan, reader, evpc,
                   sttCalls, nEv, nIn, stopped, quiet,
                   appVars>>

\* the frames written when Synthesize has returned for a completed sentence:
\* on success the binary frame, then cs.sendResponse(resp)
AfterSynth(o, p, ok, sentence, resp, cur) ==
    WriteMessage(IF ok THEN WriteMessage(o, p, AudioMessage(sentence)) ELSE o,
                 p, ResponseMessage(ResponseText(resp, cur)))

\* a variant of PSynthReturn in which a failed synthesis ends the run
PSynthReturnAborts(p, ok) ==
    /\ pipes[p].pc = "tts_wait"
    /\ IF ok
       THEN /\ out' = AfterSynth(out, p, ok, pipes[p].sentence, pipes[p].resp,
                                 pipes[p].cur)
            /\ pipes' = [pipes EXCEPT ![p].pc = "loop", ![p].sentence = <<>>,
                                      ![p].resp = <<>>]
       ELSE /\ pipes' = [pipes EXCEPT ![p].pc = "fail",
                                      ![p].detail = "Failed to synthesize"]
            /\ UNCHANGED out
    /\ UNCHANGED <<state, audioBuffer, cancelFuncs, ctxDone, transcript,
                   vadActive, triggered, absent, eventChan, reader, evpc,
                   sttCalls, ttsCalls, nEv, nIn, stopped, quiet,
                   appVars>>

\* Synthesize returns for a sentence split off the stream
PSynthReturn(p, ok) ==
    /\ pipes[p].pc = "tts_wait"
    /\ out' = AfterSynth(out, p, ok, pipes[p].sentence, pipes[p].resp,
                         pipes[p].cur)
    /\ pipes' = [pipes EXCEPT ![p].pc = "loop", ![p].sentence = <<>>,
                              ![p].resp = <<>>]
    /\ UNCHANGED <<state, audioBuffer, cancelFuncs, ctxDone, transcript,
                   vadActive, triggered, absent, eventChan, reader, evpc,
                   sttCalls, ttsCalls, nEv, nIn, stopped, quiet,
                   appVars>>

\* case resp, ok := <-responseStream with !ok (the producer closes the stream
\* after its last fragment, or when it sees its context cancelled) and a
\* leftover sentence that Synthesize is called with
PStreamEnd(p) ==
    /\ pipes[p].pc = "loop"
    /\ pipes[p].pos = Len(pipes[p].script) \/ p \in ctxDone
    /\ pipes[p].cur # <<>> /\ absent # "tts"
    /\ pipes' = [pipes EXCEPT ![p].pc = "tts_wait_last",
                              ![p].sentence = pipes[p].cur]
    /\ ttsCalls' = [ttsCalls EXCEPT ![p] = Append(@, pipes[p].cur)]
    /\ UNCHANGED <<state, audioBuffer, cancelFuncs, ctxDone, transcript,
                   vadActive, triggered, absent, eventChan, reader, evpc, out,
                   sttCalls, nEv, nIn, stopped, quiet,
                   appVars>>

\* cs.setState(StateIdle); cs.sendStatus(StateIdle, "Ready"); return
Finish(p) ==
    /\ state' = StateIdle
    /\ pipes' = [pipes EXCEPT ![p].pc = "ret", ![p].sentence = <<>>,
                              ![p].cur = <<>>]

\* the stream has ended with nothing left to synthesize (or ttsClient is nil)
PStreamEndIdle(p) ==
    /\ pipes[p].pc = "loop"
    /\ pipes[p].pos = Len(pipes[p].script) \/ p \in ctxDone
    /\ ~(pipes[p].cur # <<>> /\ absent # "tts")
    /\ Finish(p)
    /\ out' = WriteMessage(out, p, StatusMessage(StateIdle, "Ready"))
    /\ UNCHANGED <<audioBuffer, cancelFuncs, ctxDone, transcript, vadActive,
                   triggered, absent, eventChan, reader, evpc, sttCalls,
                   ttsCalls, nEv, nIn, stopped, quiet,
                   appVars>>

\* Synthesize returns for the leftover sentence
PSynthReturnLast(p, ok) ==
    /\ pipes[p].pc = "tts_wait_last"
    /\ Finish(p)
    /\ out' = WriteMessage(
                 IF ok THEN WriteMessage(out, p, AudioMessage(pipes[p].sentence))
                       ELSE out,
                 p, StatusMessage(StateIdle, "Ready"))
    /\ UNCHANGED <<audioBuffer, cancelFuncs, ctxDone, transcript, vadActive,
                   triggered, absent, eventChan, reader, evpc, sttCalls,
                   ttsCalls, nEv, nIn, stopped, quiet,
                   appVars>>

\* defer cs.removeCancelFunc("processing"); the goroutine ends
PReturn(p) ==
    /\ pipes[p].pc = "ret"
    /\ cancelFuncs' = RemoveCancelFunc(cancelFuncs, "processing")
    /\ pipes' = [pipes EXCEPT ![p] = [NoPipe EXCEPT !.pc = "done",
                                                    !.script = pipes[p].script]]
    /\ UNCHANGED <<state, audioBuffer, ctxDone, transcript, vadActive,
                   triggered, absent, eventChan, reader, evpc, out, sttCalls,
                   ttsCalls, nEv, nIn, stopped, quiet,
                   appVars>>

----------------------------------------------------------------------------
(* The session under every interleaving of its tasks *)

Events == {"start", "continue", "end"}

Detector ==
    \E e \in Events :
        nEv < MaxEvents /\ Len(eventChan) < MaxQueued /\ Emit(e)

EventLoop ==
    \/ \E answer \in BOOLEAN : EvStart(answer)
    \/ EvSetTriggered
    \/ EvTrigClear
    \/ EvEnd
    \/ EvContinue

\* binary frames
AudioReader ==
    \/ nIn < MaxInbound /\ RdAudio
    \/ RdAppend

\* text frames
CommandReader ==
    \/ nIn < MaxInbound /\ RdIgnored
    \/ nIn < MaxInbound /\ RdReset
    \/ nIn < MaxInbound /\ RdStop
    \/ RsState
    \/ RsFields
    \/ RsBuffer

Reader ==
    \/ AudioReader
    \/ CommandReader

\* processAudio up to the consumption of the generation stream
PipelineHead(p) ==
    \/ PStart(p)
    \/ PRegister(p)
    \/ PDrain(p)
    \/ \E ok \in BOOLEAN : PSttReturn(p, ok)
    \/ \E ok \in BOOLEAN, s \in Scripts : PLlmReturn(p, ok, s)
    \/ PFail(p)

\* the consumption of the generation stream when nothing cancels it
StreamLoop(p) ==
    \/ PRecv(p)
    \/ \E ok \in BOOLEAN : PSynthReturn(p, ok)
    \/ PStreamEnd(p)
    \/ PStreamEndIdle(p)
    \/ \E ok \in BOOLEAN : PSynthReturnLast(p, ok)
    \/ PReturn(p)

Pipeline(p) ==
    \/ PipelineHead(p)
    \/ StreamLoop(p)
    \/ PCtxDone(p)

Next ==
    \/ Detector
    \/ EventLoop
    \/ Reader
    \/ \E p \in Pipes : Pipeline(p)

Spec == Init /\ [][Next]_vars

----------------------------------------------------------------------------
(* One pipeline consuming a generation stream, nothing else running: the   *)
(* session is as processAudio leaves it when GetResponse has returned a    *)
(* stream for an utterance with no audio.                                  *)

\* "Hi, ", "how are ", "you? ", "I'm ", "fine."
HiScript ==
    << <<"H", "i", ",", " ">>,
       <<"h", "o", "w", " ", "a", "r", "e", " ">>,
       <<"y", "o", "u", "?", " ">>,
       <<"I", "'", "m", " ">>,
       <<"f", "i", "n", "e", ".">> >>

\* "Hello.", " World."
HelloScript ==
    << <<"H", "e", "l", "l", "o", ".">>,
       <<" ", "W", "o", "r", "l", "d", ".">> >>

SegScripts ==
    { HiScript,
      HelloScript,
      << <<"a", ".", "b">>, <<"c">> >>,
      << <<"a", "!", "b", "?", "c">>, <<".">>, <<"d">> >>,
      << <<"n", "o">>, <<" ", "e", "n", "d">> >>,
      << <<".">>, <<"a">> >>,
      << >> }

SegInit ==
    /\ state = StateSpeaking
    /\ audioBuffer = <<>>
    /\ cancelFuncs = AddCancelFunc(NoCancelFuncs, "processing", 1)
    /\ ctxDone = {}
    /\ transcript = TranscribeText
    /\ vadActive = FALSE
    /\ triggered = TRUE
    /\ absent \in {"none", "tts"}
    /\ eventChan = <<>>
    /\ reader = IdleReader
    /\ evpc = "wait"
    /\ \E script \in SegScripts :
          pipes = [p \in Pipes |->
                      IF p = 1
                      THEN [NoPipe EXCEPT !.pc = "loop", !.script = script]
                      ELSE NoPipe]
    /\ out = [t \in Tasks |->
                 IF t = ReaderTask THEN <<StatusMessage(StateIdle, "Ready")>>
                 ELSE IF t = LoopTask
                 THEN <<StatusMessage(StateTriggered, "Listening to you...")>>
                 ELSE IF t = 1
                 THEN <<StatusMessage(StateProcessing,
                                      "Processing your request..."),
                        TranscriptMessage(TranscribeText),
                        StatusMessage(StateSpeaking, "Speaking...")>>
                 ELSE <<>>]
    /\ sttCalls = << <<>> >>
    /\ ttsCalls = [p \in Pipes |-> <<>>]
    /\ nEv = 2
    /\ nIn = 0
    /\ stopped = {}
    /\ quiet = FALSE
    /\ closed = FALSE
    /\ connOpen = TRUE
    /\ clients = {"conn"}
    /\ chanOpen = TRUE
    /\ app = "up"
    /\ peerIn = 0
    /\ vadIn = <<>>
    /\ connCloses = 0
    /\ writing = [t \in Tasks |-> "no"]
    /\ vad = [rx |-> "idle", event |-> "", cancelled |-> FALSE]

SegNext == StreamLoop(1)

SegSpec == SegInit /\ [][SegNext]_vars

----------------------------------------------------------------------------
(* The audio buffer between its appender and its drainers: the session has *)
(* just been triggered, audio chunks arrive while it is capturing, and     *)
(* "end" events launch the pipelines that drain the buffer.                *)

BufInit ==
    /\ state = StateTriggered
    /\ audioBuffer = <<>>
    /\ cancelFuncs = NoCancelFuncs
    /\ ctxDone = {}
    /\ transcript = ""
    /\ vadActive = TRUE
    /\ triggered = TRUE
    /\ absent \in {"none", "llm", "tts"}
    /\ eventChan = <<>>
    /\ reader = IdleReader
    /\ evpc = "wait"
    /\ pipes = [p \in Pipes |-> NoPipe]
    /\ out = [t \in Tasks |->
                 IF t = ReaderTask THEN <<StatusMessage(StateIdle, "Ready")>>
                 ELSE IF t = LoopTask
                 THEN <<StatusMessage(StateTriggered, "Listening to you...")>>
                 ELSE <<>>]
    /\ sttCalls = <<>>
    /\ ttsCalls = [p \in Pipes |-> <<>>]
    /\ nEv = 1
    /\ nIn = 0
    /\ stopped = {}
    /\ quiet = FALSE
    /\ closed = FALSE
    /\ connOpen = TRUE
    /\ clients = {"conn"}
    /\ chanOpen = TRUE
    /\ app = "up"
    /\ peerIn = 0
    /\ vadIn = <<>>
    /\ connCloses = 0
    /\ writing = [t \in Tasks |-> "no"]
    /\ vad = [rx |-> "idle", event |-> "", cancelled |-> FALSE]

BufNext ==
    \/ nIn < BufChunks /\ state = StateTriggered /\ RdAudio
    \/ RdAppend
    \/ nEv < 1 + BufEnds /\ eventChan = <<>> /\ Emit("end")
    \/ EvEnd
    \/ \E p \in Pipes : PStart(p) \/ PRegister(p) \/ PDrain(p)

BufSpec == BufInit /\ [][BufNext]_vars

----------------------------------------------------------------------------
(* The end-to-end scenario: the detector emits "start"; once the event     *)
(* loop has handled it, E2EChunks audio chunks arrive; once they are       *)
(* handled, the detector emits "end".                                      *)

E2ENext ==
    \/ nEv = 0 /\ Emit("start")
    \/ /\ nEv = 1 /\ evpc = "wait" /\ eventChan = <<>>
       /\ nIn < E2EChunks
       /\ RdAudio
    \/ RdAppend
    \/ /\ nEv = 1 /\ nIn = E2EChunks /\ reader.pc = "read"
       /\ Emit("end")
    \/ \E answer \in BOOLEAN : EvStart(answer)
    \/ EvSetTriggered
    \/ EvTrigClear
    \/ EvEnd
    \/ \E p \in Pipes : PipelineHead(p) \/ StreamLoop(p)

E2ESpec == Init /\ [][E2ENext]_vars

----------------------------------------------------------------------------
(* Resets of an idle session: the session runs on detector events alone    *)
(* until, at a moment when it is Idle and at rest, "reset" commands        *)
(* arrive, each handled to its end with nothing else in between.           *)

IdleAtRest ==
    /\ state = StateIdle
    /\ reader.pc = "read"
    /\ evpc = "wait"
    /\ eventChan = <<>>
    /\ \A p \in Pipes : pipes[p].pc \in {"none", "done"}

ResetNext ==
    \/ nIn = 0 /\ Detector
    \/ nIn = 0 /\ EventLoop
    \/ nIn = 0 /\ \E p \in Pipes : PipelineHead(p) \/ StreamLoop(p)
    \/ nIn < ResetCount /\ IdleAtRest /\ RdReset
    \/ RsFields
    \/ RsBuffer

ResetSpec == Init /\ [][ResetNext]_vars

----------------------------------------------------------------------------
(* A consumer that has fallen behind: the detector reports "continue"      *)
(* until the channel is full, then reports further events of any type,     *)
(* and only then does the event loop take the queued events.               *)

DropNext ==
    \/ /\ Len(eventChan) < EventChanCap
       /\ nEv < EventChanCap + MaxOverflow
       /\ Emit("continue")
    \/ /\ Len(eventChan) = EventChanCap
       /\ nEv < EventChanCap + MaxOverflow
       /\ \E e \in Events : Emit(e)
    \/ nEv = EventChanCap + MaxOverflow /\ EvContinue

DropSpec == Init /\ [][DropNext]_vars

----------------------------------------------------------------------------
(* The session to its end: detector events as before, until the transport  *)
(* fails; after the session's teardown the application may shut down.      *)

TeardownNext ==
    \/ chanOpen /\ Detector
    \/ EventLoop
    \/ EvClosed
    \/ \E p \in Pipes : Pipeline(p)
    \/ RdError
    \/ CloseConn
    \/ reader.pc = "gone" /\ AppCloseClients
    \/ AppCloseVad

TeardownSpec == Init /\ [][TeardownNext]_vars

----------------------------------------------------------------------------
(* Two sessions on one App: the detector reports events only once some     *)
(* session has sent it audio, and both event loops receive from the one    *)
(* channel.                                                                *)

SharedNext ==
    \/ PeerAudio
    \/ PeerTake
    \/ nIn + peerIn > 0 /\ Detector
    \/ EventLoop
    \/ AudioReader
    \/ \E p \in Pipes : PipelineHead(p) \/ StreamLoop(p)

SharedSpec == Init /\ [][SharedNext]_vars

----------------------------------------------------------------------------
(* The session when the client sends audio only: no text command arrives,  *)
(* so nothing is ever cancelled.                                           *)

DetectorNext ==
    \/ Detector
    \/ EventLoop
    \/ AudioReader
    \/ \E p \in Pipes : PipelineHead(p) \/ StreamLoop(p)

DetectorSpec == Init /\ [][DetectorNext]_vars

----------------------------------------------------------------------------
(* Shared definitions of the properties *)

\* the sequence 1, 2, ..., n
Iota(n) == [i \in 1..n |-> i]

RECURSIVE Flatten(_)
Flatten(ss) == IF ss = <<>> THEN <<>> ELSE Head(ss) \o Flatten(Tail(ss))

IsPrefix(a, b) == Len(a) <= Len(b) /\ SubSeq(b, 1, Len(a)) = a

\* a is b with some elements left out
RECURSIVE IsSubseq(_, _)
IsSubseq(a, b) ==
    IF a = <<>> THEN TRUE
    ELSE IF b = <<>> THEN FALSE
    ELSE IF Head(a) = Head(b) THEN IsSubseq(Tail(a), Tail(b))
    ELSE IsSubseq(a, Tail(b))

\* the texts of the frames of type ty that pipeline p has written to o
TextsOf(o, p, ty) ==
    LET fs == SelectSeq(o[p], LAMBDA m : m.type = ty)
    IN [i \in 1..Len(fs) |-> fs[i].text]

\* the transcript, reply and audio frames pipeline p has written to o
UtteranceFrames(o, p) ==
    SelectSeq(o[p], LAMBDA m : m.type \in {"transcript", "response", "audio"})

\* no task is in the middle of a handler and no event is waiting
Quiescent ==
    /\ reader.pc = "read"
    /\ evpc = "wait"
    /\ eventChan = <<>>
    /\ \A p \in Pipes : pipes[p].pc \in {"none", "done"}

----------------------------------------------------------------------------
(* C1: in every reachable state at most one pipeline that has started and  *)
(* not returned is active, not counting pipelines already cancelled.       *)

C1_AtMostOnePipeline ==
    Cardinality({p \in Pipes : Running(p) /\ p \notin ctxDone}) <= 1

(* C2: once a "stop" has been handled while pipeline p was in flight, p    *)
(* writes no further transcript, reply or audio frame, reads no further    *)
(* fragment of the generation stream and makes no further synthesis call.  *)

C2_NoOutputAfterStop ==
    [][\A p \in stopped :
          /\ UtteranceFrames(out', p) = UtteranceFrames(out, p)
          /\ ~(pipes'[p].pos > pipes[p].pos)
          /\ ttsCalls'[p] = ttsCalls[p]]_vars

(* C3: after a "stop" handled while a pipeline was in flight, with no      *)
(* further detector event or client command, the session comes to rest in  *)
(* Idle: whenever all tasks are at rest the state is Idle.                 *)

C3_IdleAfterStop ==
    (stopped # {} /\ quiet /\ Quiescent) => state = StateIdle

(* C4: with detector events and audio only (no client command), every     *)
(* change of the session state is one of the listed edges.                 *)

ListedEdges ==
    { <<StateIdle, StateTriggered>>,
      <<StateTriggered, StateProcessing>>,
      <<StateProcessing, StateSpeaking>>,
      <<StateSpeaking, StateIdle>>,
      <<StateProcessing, StateIdle>> }

C4_OnlyListedEdges ==
    [][state' # state => <<state, state'>> \in ListedEdges]_vars

(* C10: whenever all tasks are at rest, a non-empty audio buffer implies   *)
(* that the session state is Triggered.                                    *)

C10_BufferOnlyWhileTriggered ==
    Quiescent => (audioBuffer # <<>> => state = StateTriggered)

(* C5 as stated: for the fragments "Hi, ", "how are ", "you? ", "I'm ",    *)
(* "fine." the pipeline makes exactly two synthesis calls, with the texts  *)
(* "Hi, how are you?" and "I'm fine.".                                     *)

HiDone == pipes[1].pc = "done" /\ pipes[1].script = HiScript /\ absent = "none"

HowAreYou ==
    <<"H", "i", ",", " ", "h", "o", "w", " ", "a", "r", "e", " ",
      "y", "o", "u", "?">>

ImFine == <<"I", "'", "m", " ", "f", "i", "n", "e", ".">>

C5_AsStated == HiDone => ttsCalls[1] = <<HowAreYou, ImFine>>

(* C5 amended: for those fragments the pipeline makes exactly two          *)
(* synthesis calls, the first with "Hi, how are you?" and the second, at   *)
(* the end of the stream, with " I'm fine." (the space that followed the   *)
(* question mark stays at the head of the running buffer).                 *)

C5_HiSegmentation == HiDone => ttsCalls[1] = <<HowAreYou, <<" ">> \o ImFine>>

C5_Witness == HiDone /\ Len(ttsCalls[1]) = 2

(* C6: the chunks handed to the transcription collaborator, batch after    *)
(* batch, followed by the chunks still in the buffer and the chunk being   *)
(* appended, are exactly the chunks that arrived, in arrival order (none   *)
(* lost, none twice); and a drain hands over the whole buffer and leaves   *)
(* it empty in the same step, so that a second drain yields nothing.       *)

Pending == IF reader.pc = "append" THEN <<reader.chunk>> ELSE <<>>

C6_BufferRoundTrip ==
    /\ [](Flatten(sttCalls) \o audioBuffer \o Pending = Iota(nIn))
    /\ [][sttCalls' # sttCalls =>
             /\ sttCalls' = Append(sttCalls, audioBuffer)
             /\ audioBuffer' = <<>>]_vars

C6_Witness == sttCalls = <<Iota(BufChunks), <<>> >> /\ BufChunks >= 3

(* C7: after "start" with the trigger answering true the state is          *)
(* Triggered and the buffer holds exactly the chunks that have arrived     *)
(* since (none at first); after "end" the state has become Processing by   *)
(* the time the pipeline drains, the drain empties the buffer, and the     *)
(* transcription collaborator is invoked once, with all the chunks in      *)
(* arrival order.                                                          *)

C7_EndToEnd ==
    /\ (nEv = 1 /\ evpc = "wait" /\ eventChan = <<>> /\ triggered) =>
           /\ state = StateTriggered
           /\ audioBuffer \o Pending = Iota(nIn)
    /\ (triggered /\ pipes[1].pc \in {"register", "drain"}) =>
           /\ state = StateProcessing
           /\ audioBuffer = Iota(E2EChunks)
           /\ sttCalls = <<>>
    /\ (triggered /\ pipes[1].pc \notin {"none", "start", "register", "drain"}) =>
           /\ audioBuffer = <<>>
           /\ absent # "stt" => sttCalls = <<Iota(E2EChunks)>>
    /\ pipes[1].pc = "stt_wait" => state = StateProcessing
    /\ (nEv = 2 /\ evpc = "wait" /\ eventChan = <<>> /\ triggered) =>
           pipes[1].pc # "none"

C7_Witness ==
    /\ pipes[1].pc = "stt_wait"
    /\ state = StateProcessing
    /\ audioBuffer = <<>>
    /\ sttCalls = <<Iota(E2EChunks)>>
    /\ E2EChunks >= 3

(* C8: a "reset" handled by an idle session leaves the state Idle, the     *)
(* buffer empty and the transcript and flags cleared, and sends exactly    *)
(* one IDLE/"Ready" status; after a second reset the session is the same.  *)

C8_ResetIdempotent ==
    /\ nIn >= 1 => state = StateIdle
    /\ (nIn >= 1 /\ reader.pc = "read") =>
           /\ audioBuffer = <<>>
           /\ transcript = ""
           /\ ~vadActive
           /\ ~triggered
           /\ cancelFuncs = NoCancelFuncs
           /\ out[ReaderTask] =
                  [i \in 1..(nIn + 1) |-> StatusMessage(StateIdle, "Ready")]

C8_Witness ==
    /\ nIn = 2
    /\ reader.pc = "read"
    /\ pipes[1].pc = "done"
    /\ Len(out[ReaderTask]) = 3

(* C9: the reply notifications a pipeline has written are, in order, the   *)
(* fragments it has received from the generation stream; the sentences it  *)
(* has submitted for synthesis are consecutive pieces of the generated     *)
(* text, and the audio frames it has written follow the order of those     *)
(* sentences.                                                              *)

C9_GenerationOrder ==
    \A p \in Pipes :
        LET responses == TextsOf(out, p, "response")
        IN /\ IsPrefix(responses, pipes[p].script)
           /\ pipes[p].pc \in {"loop", "tts_wait_last", "ret"} =>
                  Len(responses) = pipes[p].pos
           /\ pipes[p].pc = "tts_wait" => Len(responses) = pipes[p].pos - 1
           /\ IsPrefix(Flatten(ttsCalls[p]), Flatten(pipes[p].script))
           /\ IsSubseq(TextsOf(out, p, "audio"), ttsCalls[p])

C9_Witness ==
    /\ Len(TextsOf(out, 1, "response")) = 2
    /\ Len(TextsOf(out, 1, "audio")) = 2

(* C11: the step of a "stop" that runs cancelAllOperations cancels every   *)
(* context in the registry and empties the registry, and leaves the state  *)
(* as it is: the state is forced to Idle only by a later step.             *)

C11_CancelAllThenReset ==
    [][(reader.pc = "read" /\ reader'.pc = "rs_state") =>
          /\ {cancelFuncs[k] : k \in DOMAIN cancelFuncs} \subseteq ctxDone'
          /\ cancelFuncs' = NoCancelFuncs
          /\ state' = state]_vars

C11_Witness ==
    /\ reader.pc = "rs_state"
    /\ ctxDone # {}
    /\ cancelFuncs = NoCancelFuncs
    /\ state = StateProcessing

(* C12: the step in which pipeline p returns leaves in the registry every  *)
(* entry that holds the handle of another pipeline.                        *)

C12_RemovesOnlyOwnHandle ==
    [][\A p \in Pipes :
          (pipes[p].pc = "ret" /\ pipes'[p].pc = "done") =>
              \A k \in DOMAIN cancelFuncs :
                  cancelFuncs[k] # p =>
                      /\ k \in DOMAIN cancelFuncs'
                      /\ cancelFuncs'[k] = cancelFuncs[k]]_vars

(* C17: the voice-activity flag changes, and the state goes from Idle to   *)
(* Triggered or from Triggered to Processing, only in steps of the event   *)
(* loop.                                                                   *)

LoopStep == Len(eventChan') < Len(eventChan) \/ evpc' # evpc

C17_LoopIsSingleWriter ==
    [][(\/ vadActive' # vadActive
        \/ state = StateIdle /\ state' = StateTriggered
        \/ state = StateTriggered /\ state' = StateProcessing) => LoopStep]_vars

(* C19: a pipeline whose context has been cancelled sends no status        *)
(* notification with status ERROR from then on.                            *)

ErrorStatuses(o, p) ==
    SelectSeq(o[p], LAMBDA m : m.type = "status" /\ m.status = StateError)

C19_NoErrorAfterCancel ==
    [][\A p \in ctxDone : ErrorStatuses(out', p) = ErrorStatuses(out, p)]_vars

(* C18: in the end-to-end scenario every frame is written before the      *)
(* pipeline's own, so once the pipeline has returned the last status       *)
(* notification sent is the pipeline's last; it names the session state.   *)

StatusesOf(o, t) == SelectSeq(o[t], LAMBDA m : m.type = "status")

LastStatus(o, t) == StatusesOf(o, t)[Len(StatusesOf(o, t))].status

C18_LastStatusNamesState ==
    pipes[1].pc = "done" => LastStatus(out, 1) = state

(* C20: a pipeline on its failure path after a failed transcription has    *)
(* sent no transcript and made no synthesis call, and after a failed       *)
(* generation the state has not become Speaking and no synthesis call was  *)
(* made; leaving the failure path it sends one ERROR status carrying the   *)
(* reason, sets the state to Idle and returns; a returning pipeline sends  *)
(* nothing and calls nothing any more.                                     *)

C20_FailurePaths ==
    /\ [](\A p \in Pipes :
            /\ (pipes[p].pc = "fail"
                   /\ pipes[p].detail = "Failed to transcribe audio") =>
                   /\ TextsOf(out, p, "transcript") = <<>>
                   /\ transcript = ""
                   /\ pipes[p].script = <<>>
                   /\ ttsCalls[p] = <<>>
            /\ (pipes[p].pc = "fail"
                   /\ pipes[p].detail = "Failed to get AI response") =>
                   /\ state = StateProcessing
                   /\ \A i \in 1..Len(out[p]) :
                         out[p][i] # StatusMessage(StateSpeaking, "Speaking...")
                   /\ pipes[p].script = <<>>
                   /\ ttsCalls[p] = <<>>)
    /\ [][\A p \in Pipes :
            /\ (pipes[p].pc = "fail" /\ pipes'[p].pc # "fail") =>
                   /\ out'[p] = Append(out[p], StatusMessage(StateError,
                                                             pipes[p].detail))
                   /\ pipes[p].detail # ""
                   /\ state' = StateIdle
                   /\ pipes'[p].pc = "ret"
                   /\ ttsCalls' = ttsCalls
                   /\ transcript' = transcript
            /\ pipes[p].pc = "ret" =>
                   /\ pipes'[p].pc \in {"ret", "done"}
                   /\ out'[p] = out[p]
                   /\ ttsCalls' = ttsCalls
                   /\ state' = state]_vars

C20_Witness ==
    /\ pipes[1].pc = "done"
    /\ state = StateIdle
    /\ out[1][Len(out[1])] = StatusMessage(StateError,
                                           "Failed to get AI response")
    /\ TextsOf(out, 1, "transcript") = <<TranscribeText>>

(* C16: the producer of a present detector can always hand over an event; *)
(* the channel never                                                       *)
(* holds more than its capacity; an event handed over while the channel is *)
(* full is discarded and the queued events stay as they are; otherwise it  *)
(* is queued behind them.                                                  *)

C16_DropNewestWhenFull ==
    /\ [](Len(eventChan) <= EventChanCap)
    /\ [](absent # "vad" => \A e \in Events : ENABLED Emit(e))
    /\ [][nEv' = nEv + 1 =>
             IF Len(eventChan) = EventChanCap
             THEN eventChan' = eventChan
             ELSE /\ Len(eventChan') = Len(eventChan) + 1
                  /\ SubSeq(eventChan', 1, Len(eventChan)) = eventChan]_vars

C16_Witness ==
    /\ Len(eventChan) = EventChanCap
    /\ nEv = EventChanCap + MaxOverflow
    /\ MaxOverflow >= 2

(* C13: once the read loop has ended on an error and the teardown has run, *)
(* the state is Disconnected, the connection is closed and the session is  *)
(* no longer in the registry.                                              *)

C13_DisconnectedAfterClose ==
    reader.pc = "gone" =>
        /\ state = StateDisconnected
        /\ ~connOpen
        /\ closed
        /\ "conn" \notin clients

(* C14: once the session has been torn down, its event loop takes no       *)
(* further event from the channel.                                         *)

C14_LoopEndsWithSession ==
    [][reader.pc = "gone" => Len(eventChan') >= Len(eventChan)]_vars

(* C15: while this session has sent no audio, every detector event stems   *)
(* from another session's audio, and this session's state does not change. *)

C15_EventsPerSession ==
    nIn = 0 => state = StateIdle

(* C21: with no transcription collaborator a run of the pipeline sends the *)
(* PROCESSING status and then an ERROR status saying that the service is   *)
(* unavailable, puts the session in IDLE and returns: it calls neither     *)
(* transcription nor generation nor synthesis, sends no transcript, reply  *)
(* or audio frame, holds its cancellation handle from registration until   *)
(* it returns, and has deregistered it when it has returned.               *)

C21_NoTranscriber ==
    absent = "stt" =>
        /\ sttCalls = <<>>
        /\ ttsCalls[1] = <<>>
        /\ UtteranceFrames(out, 1) = <<>>
        /\ pipes[1].pc \in {"none", "start", "register", "drain", "fail",
                            "ret", "done"}
        /\ pipes[1].pc \in {"drain", "fail", "ret"} =>
               cancelFuncs = AddCancelFunc(NoCancelFuncs, "processing", 1)
        /\ pipes[1].pc \in {"ret", "done"} =>
               /\ state = StateIdle
               /\ out[1] = << StatusMessage(StateProcessing,
                                            "Processing your request..."),
                              StatusMessage(StateError,
                                            "STT service unavailable") >>
        /\ pipes[1].pc = "done" => cancelFuncs = NoCancelFuncs

C21_Witness ==
    /\ absent = "stt"
    /\ pipes[1].pc = "done"
    /\ Len(out[1]) = 2
    /\ nIn = E2EChunks

(* C22: a run in which a completed sentence was to be synthesized while    *)
(* the synthesis collaborator is absent has sent a status frame that       *)
(* reports it, that is, a status frame other than the three an undisturbed *)
(* run sends.                                                              *)

OrdinaryDetails == {"Processing your request...", "Speaking...", "Ready"}

C22_AbsentSynthesisReported ==
    (absent = "tts" /\ pipes[1].pc = "done" /\ pipes[1].script = HiScript) =>
        \E i \in 1..Len(StatusesOf(out, 1)) :
            StatusesOf(out, 1)[i].detail \notin OrdinaryDetails

----------------------------------------------------------------------------
(* The utterance after a run of the pipeline: the end-to-end scenario,     *)
(* and once its pipeline has returned the detector emits a second "start". *)

RecoverNext ==
    \/ E2ENext
    \/ nEv = 2 /\ pipes[1].pc = "done" /\ Emit("start")

RecoverSpec == Init /\ [][RecoverNext]_vars

(* C23: once a run of the pipeline has failed and returned, the connection *)
(* is open and the event loop has not ended; before the next event the     *)
(* session is IDLE; the loop can take an event that is queued; a "start"   *)
(* with a positive trigger answer is taken towards TRIGGERED, and the      *)
(* loop's next step then sets TRIGGERED and sends the TRIGGERED status.    *)

Failed == pipes[1].pc = "done" /\ ErrorStatuses(out, 1) # <<>>

C23_FailureLeavesLoopRunning ==
    /\ [](Failed => connOpen /\ ~closed /\ evpc \notin {"exited", "off"})
    /\ [](Failed /\ nEv = 2 => state = StateIdle)
    /\ [](Failed /\ eventChan # <<>> /\ evpc = "wait" =>
             /\ ENABLED EventLoop
             /\ Head(eventChan) = "start" =>
                   ENABLED (EvStart(TRUE) /\ evpc' = "set_triggered"))
    /\ [][Failed /\ evpc = "set_triggered" /\ evpc' # evpc =>
             /\ state' = StateTriggered
             /\ out'[LoopTask] =
                    Append(out[LoopTask],
                           StatusMessage(StateTriggered,
                                         "Listening to you..."))]_vars

C23_Witness ==
    /\ Failed
    /\ nEv = 3
    /\ evpc = "wait"
    /\ state = StateTriggered
    /\ Len(out[LoopTask]) = 2

----------------------------------------------------------------------------
(* Text frames that are no command: the session runs on detector events,   *)
(* and the only inbound frames are text frames that do not parse or name   *)
(* an action other than reset and stop.                                    *)

IgnoredNext ==
    \/ Detector
    \/ EventLoop
    \/ \E p \in Pipes : PipelineHead(p) \/ StreamLoop(p)
    \/ nIn < MaxInbound /\ RdIgnored

IgnoredSpec == Init /\ [][IgnoredNext]_vars

(* C24: handling a text frame that is not valid JSON, or whose action is   *)
(* neither reset nor stop, changes neither the state, the flags, the audio *)
(* buffer, the transcript, the registered handles and the contexts they    *)
(* cancel, the tasks' positions, the frames sent, nor the collaborators'   *)
(* calls.                                                                  *)

C24_IgnoredFrameChangesNothing ==
    [][nIn' = nIn + 1 =>
          UNCHANGED <<state, audioBuffer, cancelFuncs, ctxDone, transcript,
                      vadActive, triggered, eventChan, reader, evpc, pipes,
                      out, sttCalls, ttsCalls, vadIn, closed, connOpen,
                      clients>>]_vars

C24_Witness ==
    /\ nIn = MaxInbound
    /\ state = StateSpeaking
    /\ Registered # {}
    /\ reader.pc = "read"

(* C25: when the event loop takes a "start" while the session is           *)
(* TRIGGERED, PROCESSING or SPEAKING, it goes back to waiting without      *)
(* asking the trigger collaborator and changes neither the state, the      *)
(* trigger flag, the audio buffer nor the frames sent; the loop goes on to *)
(* act on the trigger's answer only from a "start" taken in IDLE with the  *)
(* collaborator present.                                                   *)

TakesStart ==
    /\ evpc = "wait"
    /\ eventChan # <<>>
    /\ Head(eventChan) = "start"
    /\ eventChan' = Tail(eventChan)

C25_StartOutsideIdle ==
    /\ [][TakesStart /\ state \in {StateTriggered, StateProcessing,
                                   StateSpeaking} =>
             /\ evpc' = "wait"
             /\ vadActive'
             /\ UNCHANGED <<state, triggered, audioBuffer, out>>]_vars
    /\ [][evpc = "wait" /\ evpc' = "set_triggered" =>
             TakesStart /\ state = StateIdle /\ absent # "trigger"]_vars

C25_Witness ==
    /\ nEv = 3
    /\ eventChan = <<>>
    /\ evpc = "wait"
    /\ vadActive
    /\ state = StateSpeaking
    /\ pipes[1].pc = "loop"
    /\ pipes[2].pc = "none"
    /\ Len(out[LoopTask]) = 1

(* C26: every binary frame the reader has handled has been forwarded to    *)
(* the detector, in order of arrival, when the detector is present (and    *)
(* none when it is absent); a frame is taken for buffering exactly when    *)
(* the session is TRIGGERED as the frame's handling tests the state; the   *)
(* buffer grows by nothing but the frame so taken, and a frame taken in    *)
(* any other state is never in the buffer or in a batch to transcribe.     *)

C26_ForwardAlwaysBufferWhenTriggered ==
    /\ [](vadIn \o Pending = IF absent = "vad" THEN <<>> ELSE Iota(nIn))
    /\ [][nIn' = nIn + 1 =>
             /\ reader'.pc = "append" <=> state = StateTriggered
             /\ audioBuffer' = audioBuffer]_vars
    /\ [][Len(audioBuffer') > Len(audioBuffer) =>
             /\ reader.pc = "append"
             /\ audioBuffer' = Append(audioBuffer, reader.chunk)
             /\ vadIn' = Append(vadIn, reader.chunk)]_vars

C26_Witness ==
    /\ vadIn = <<1, 2>>
    /\ sttCalls = << <<1>> >>
    /\ audioBuffer = <<>>
    /\ reader.pc = "read"
    /\ state = StateSpeaking

(* C27: whenever the pipeline has finished with a fragment, every sentence *)
(* terminator received so far has been split off and submitted to          *)
(* synthesis: the running sentence buffer holds no terminator; so once the *)
(* fragment 'Hello.' has been handled, 'Hello.' has been submitted.        *)

C27_SplitAtEveryTerminator ==
    (absent = "none" /\ pipes[1].pc = "loop") =>
        /\ ~ContainsTerminator(pipes[1].cur)
        /\ (pipes[1].script = HelloScript /\ pipes[1].pos >= 1) =>
               /\ ttsCalls[1] # <<>>
               /\ ttsCalls[1][1] = HelloScript[1]

(* C28: while a synthesis call for a completed sentence is outstanding and *)
(* the generation stream has a further fragment, the pipeline can receive  *)
(* that fragment: it does not stop reading the stream for the synthesis.   *)

C28_ReadsWhileSynthesizing ==
    (pipes[1].pc = "tts_wait" /\ pipes[1].pos < Len(pipes[1].script)) =>
        ENABLED PRecv(1)

----------------------------------------------------------------------------
(* Shutdown at any moment: detector events and pipelines as before; the    *)
(* transport may fail and the application may shut down at any time, so    *)
(* that App.Close and the session's removeClient compete for the registry; *)
(* another connection may register before the shutdown.                    *)

ShutdownNext ==
    \/ chanOpen /\ Detector
    \/ EventLoop
    \/ EvClosed
    \/ \E p \in Pipes : Pipeline(p)
    \/ RdError
    \/ CloseConn
    \/ app = "up" /\ PeerConnect
    \/ AppCloseClients
    \/ AppCloseVad

ShutdownSpec == Init /\ [][ShutdownNext]_vars

(* C29: the registry section of App.Close does not run while removeClient  *)
(* holds the registry; once it has run the registry is empty and the       *)
(* session is closed; under every interleaving the connection is closed at *)
(* most once, and exactly once when the session is closed; close fires the *)
(* registered handles only when the session is not yet closed, and no      *)
(* handle is fired after that; a session in the registry is not closed,    *)
(* and a session whose reader has ended is closed and out of the registry. *)

ClosesSession ==
    \/ reader.pc = "read" /\ reader'.pc = "close_conn"
    \/ app = "up" /\ app' = "closing" /\ closed' # closed

C29_RegistryExclusive ==
    /\ [](connCloses <= 1)
    /\ [](closed <=> connCloses = 1)
    /\ [](closed <=> ~connOpen)
    /\ []("conn" \in clients => ~closed)
    /\ [](app # "up" => clients = {} /\ closed)
    /\ [](reader.pc = "gone" => "conn" \notin clients /\ closed)
    /\ [][reader.pc = "close_conn" => app' = app]_vars
    /\ [][ClosesSession =>
             /\ ~closed
             /\ connCloses = 0
             /\ ctxDone' = ctxDone \cup Registered
             /\ cancelFuncs' = NoCancelFuncs]_vars
    /\ [][closed => ctxDone' = ctxDone]_vars

C29_Witness ==
    /\ app = "down"
    /\ reader.pc = "gone"
    /\ connCloses = 1
    /\ ctxDone # {}
    /\ \E p \in Pipes : Running(p)

(* C30: when the event loop takes a "start" while the session is IDLE it   *)
(* sets vadActive and, in that step, changes neither the state, the buffer *)
(* nor the frames sent; it goes on towards TRIGGERED only with the trigger *)
(* collaborator present; going on, it sets the trigger flag and the state  *)
(* TRIGGERED and sends one TRIGGERED status, and then empties the audio    *)
(* buffer; with the trigger collaborator absent the session is never       *)
(* TRIGGERED and the loop sends no frame.                                  *)

C30_StartInIdle ==
    /\ [][TakesStart /\ state = StateIdle =>
             /\ vadActive'
             /\ evpc' \in {"set_triggered", "wait"}
             /\ evpc' = "set_triggered" => absent # "trigger"
             /\ UNCHANGED <<state, triggered, audioBuffer, out>>]_vars
    /\ [][evpc = "set_triggered" /\ evpc' # evpc =>
             /\ evpc' = "trig_clear"
             /\ triggered'
             /\ state' = StateTriggered
             /\ out' = [out EXCEPT ![LoopTask] =
                           Append(@, StatusMessage(StateTriggered,
                                                   "Listening to you..."))]
             /\ audioBuffer' = audioBuffer]_vars
    /\ [][evpc = "trig_clear" /\ evpc' # evpc =>
             /\ evpc' = "wait"
             /\ audioBuffer' = <<>>
             /\ UNCHANGED <<state, out>>]_vars
    /\ [](absent = "trigger" =>
             /\ state = StateIdle
             /\ ~triggered
             /\ out[LoopTask] = <<>>
             /\ evpc = "wait")

C30_Witness ==
    /\ Len(out[LoopTask]) = 2
    /\ state = StateTriggered
    /\ evpc = "wait"
    /\ vadActive
    /\ audioBuffer = <<>>
    /\ vadIn = <<1>>
    /\ sttCalls = << <<>> >>
    /\ reader.pc = "read"

(* C31: when the event loop takes a "continue", or an "end" while the      *)
(* session is not TRIGGERED, it changes neither the state, the audio       *)
(* buffer, the registered handles nor the frames sent and launches no      *)
(* pipeline; "end" clears vadActive and "continue" leaves it; an "end"     *)
(* taken while TRIGGERED launches exactly one pipeline.                    *)

Takes(e) ==
    /\ evpc = "wait"
    /\ eventChan # <<>>
    /\ Head(eventChan) = e
    /\ eventChan' = Tail(eventChan)

C31_EndAndContinue ==
    /\ [][Takes("continue") =>
             UNCHANGED <<state, audioBuffer, cancelFuncs, ctxDone, out,
                         pipes, vadActive, triggered, evpc>>]_vars
    /\ [][Takes("end") /\ state # StateTriggered =>
             /\ ~vadActive'
             /\ UNCHANGED <<state, audioBuffer, cancelFuncs, ctxDone, out,
                            pipes, triggered, evpc>>]_vars
    /\ [][Takes("end") /\ state = StateTriggered =>
             /\ ~vadActive'
             /\ Cardinality({p \in Pipes : pipes'[p] # pipes[p]}) = 1
             /\ \A p \in Pipes :
                   pipes'[p] # pipes[p] =>
                       /\ pipes[p].pc = "none"
                       /\ pipes'[p] = [NoPipe EXCEPT !.pc = "start"]
             /\ UNCHANGED <<state, audioBuffer, cancelFuncs, ctxDone, out,
                            triggered, evpc>>]_vars

C31_Witness ==
    /\ nEv = 3
    /\ eventChan = <<>>
    /\ evpc = "wait"
    /\ ~vadActive
    /\ state = StateSpeaking
    /\ pipes[1].pc = "loop"
    /\ pipes[2].pc = "none"
    /\ Len(out[LoopTask]) = 1

(* C32: the frames of a pipeline run that has returned without failing are *)
(* the PROCESSING status, then one final transcript, then the SPEAKING     *)
(* status, then reply fragments and audio frames only, then the IDLE       *)
(* status "Ready" as the last frame; the session is then IDLE and no       *)
(* handle is registered under "processing"; the SPEAKING status is not     *)
(* sent before the generation stream has been opened.                      *)

C32_FrameOrder ==
    /\ (pipes[1].pc = "done" /\ ErrorStatuses(out, 1) = <<>>) =>
          /\ Len(out[1]) >= 4
          /\ out[1][1] = [type |-> "status", status |-> StateProcessing,
                          detail |-> "Processing your request..."]
          /\ out[1][2] = [type |-> "transcript", text |-> TranscribeText,
                          isFinal |-> TRUE]
          /\ out[1][3] = [type |-> "status", status |-> StateSpeaking,
                          detail |-> "Speaking..."]
          /\ \A i \in 4..(Len(out[1]) - 1) :
                out[1][i].type \in {"response", "audio"}
          /\ out[1][Len(out[1])] = [type |-> "status", status |-> StateIdle,
                                    detail |-> "Ready"]
          /\ state = StateIdle
          /\ "processing" \notin DOMAIN cancelFuncs
    /\ pipes[1].pc \in {"none", "start", "register", "drain", "stt_wait",
                        "llm_wait", "fail"} =>
          \A i \in 1..Len(out[1]) :
              out[1][i] # StatusMessage(StateSpeaking, "Speaking...")

C32_Witness ==
    /\ pipes[1].pc = "done"
    /\ ErrorStatuses(out, 1) = <<>>
    /\ TextsOf(out, 1, "audio") # <<>>
    /\ TextsOf(out, 1, "response") # <<>>

(* C33: with the synthesis collaborator present, the texts handed to       *)
(* synthesis so far, followed by the running sentence buffer, are the      *)
(* fragments received so far; when the run has returned the texts handed   *)
(* to synthesis are, end to end, all the fragments of the stream; at the   *)
(* end of the stream a non-empty leftover is handed to synthesis once,     *)
(* terminated or not, and an empty leftover causes no call.                *)

Received(p) == Flatten(SubSeq(pipes[p].script, 1, pipes[p].pos))

C33_NoTextLost ==
    /\ [](absent = "none" /\ pipes[1].pc \in {"loop", "tts_wait"} =>
             Flatten(ttsCalls[1]) \o pipes[1].cur = Received(1))
    /\ [](absent = "none" /\ pipes[1].pc \in {"tts_wait_last", "ret", "done"} =>
             Flatten(ttsCalls[1]) = Flatten(pipes[1].script))
    /\ [][absent = "none" /\ pipes[1].pc = "loop"
              /\ pipes'[1].pc \notin {"loop", "tts_wait"} =>
             IF pipes[1].cur # <<>>
             THEN /\ pipes'[1].pc = "tts_wait_last"
                  /\ ttsCalls'[1] = Append(ttsCalls[1], pipes[1].cur)
             ELSE ttsCalls' = ttsCalls]_vars
    /\ [][pipes[1].pc \in {"tts_wait_last", "ret"} =>
             ttsCalls' = ttsCalls]_vars

C33_Witness ==
    /\ absent = "none"
    /\ pipes[1].pc = "done"
    /\ ttsCalls[1] = << <<"n", "o", " ", "e", "n", "d">> >>

----------------------------------------------------------------------------
(* Resets at any moment: the session runs on detector events, and the only *)
(* inbound frames are "reset" commands, which may arrive in every state    *)
(* and while pipelines are in flight.                                      *)

ResetAnyNext ==
    \/ Detector
    \/ EventLoop
    \/ \E p \in Pipes : PipelineHead(p) \/ StreamLoop(p)
    \/ nIn < MaxInbound /\ RdReset
    \/ RsFields
    \/ RsBuffer

ResetAnySpec == Init /\ [][ResetAnyNext]_vars

(* C34: the handling of "reset" first sets the state IDLE, then clears the *)
(* transcript, vadActive and the trigger flag, then empties the audio      *)
(* buffer and sends the IDLE status "Ready"; none of its steps fires a     *)
(* handle, changes the registered handles or touches a pipeline, no        *)
(* context is ever cancelled, and a pipeline in flight can always take its *)
(* next step.                                                              *)

C34_ResetEffect ==
    /\ [][reader.pc = "read" /\ reader'.pc # "read" =>
             /\ state' = StateIdle
             /\ reader'.pc = "rs_fields"]_vars
    /\ [][reader.pc = "rs_fields" /\ reader'.pc # "rs_fields" =>
             /\ transcript' = ""
             /\ ~vadActive'
             /\ ~triggered'
             /\ reader'.pc = "rs_buffer"]_vars
    /\ [][reader.pc = "rs_buffer" /\ reader'.pc # "rs_buffer" =>
             /\ audioBuffer' = <<>>
             /\ out' = [out EXCEPT ![ReaderTask] =
                           Append(@, [type |-> "status",
                                      status |-> StateIdle,
                                      detail |-> "Ready"])]
             /\ reader'.pc = "read"]_vars
    /\ [][reader' # reader => UNCHANGED <<cancelFuncs, ctxDone, pipes>>]_vars
    /\ [](ctxDone = {})
    /\ [](\A p \in Pipes : Running(p) => ENABLED Pipeline(p))

C34_Witness ==
    /\ nIn = 1
    /\ reader.pc = "read"
    /\ Len(out[ReaderTask]) = 2
    /\ state = StateIdle
    /\ pipes[1].pc = "loop"
    /\ pipes[2].pc = "none"
    /\ Registered = {1}

(* C35: the buffer reset that follows the transition to TRIGGERED discards *)
(* no chunk (the buffer it empties holds neither a chunk of the new        *)
(* utterance nor one left from an earlier utterance), and once every       *)
(* launched pipeline has drained the buffer, with the session PROCESSING   *)
(* or SPEAKING and no accepted chunk waiting to be appended, the buffer    *)
(* holds no chunk.                                                         *)

C35_NoAudioLostOrLeaked ==
    /\ [][evpc = "trig_clear" /\ evpc' # evpc => audioBuffer = <<>>]_vars
    /\ []((/\ state \in {StateProcessing, StateSpeaking}
           /\ Pending = <<>>
           /\ \A p \in Pipes : pipes[p].pc \notin {"start", "register",
                                                   "drain"})
             => audioBuffer = <<>>)

----------------------------------------------------------------------------
(* Writes to the connection as calls that take time: cs.conn.WriteMessage  *)
(* is entered and later returns, and no lock of ClientState is held around *)
(* it.  A write that overlaps another task's write is a data race on the   *)
(* connection: the frame it puts on the wire is the message or garbage.    *)

\* task t enters cs.conn.WriteMessage
BeginWrite(w, t) ==
    [u \in Tasks |->
        IF u = t
        THEN IF \E v \in Tasks : w[v] # "no" THEN "raced" ELSE "clean"
        ELSE IF w[u] # "no" THEN "raced" ELSE "no"]

GarbledFrame == [type |-> "garbled"]

\* what a write of m by task t may have put on the wire when it returns
WireFrames(t, m) == IF writing[t] = "raced" THEN {m, GarbledFrame} ELSE {m}

\* cs.triggered = true; cs.setState(StateTriggered); sendStatus enters
\* WriteMessage
EvSetTriggeredCall ==
    /\ evpc = "set_triggered"
    /\ triggered' = TRUE
    /\ state' = StateTriggered
    /\ writing' = BeginWrite(writing, LoopTask)
    /\ evpc' = "trig_write"
    /\ UNCHANGED <<audioBuffer, cancelFuncs, ctxDone, transcript, vadActive,
                   absent, eventChan, reader, pipes, out, sttCalls, ttsCalls,
                   nEv, nIn, stopped, quiet, closed, connOpen, clients,
                   chanOpen, app, peerIn, vadIn, connCloses,
                   vad>>

\* the event loop's WriteMessage returns
EvTriggeredWritten ==
    /\ evpc = "trig_write"
    /\ \E f \in WireFrames(LoopTask, StatusMessage(StateTriggered,
                                                   "Listening to you...")) :
          out' = WriteMessage(out, LoopTask, f)
    /\ writing' = [writing EXCEPT ![LoopTask] = "no"]
    /\ evpc' = "trig_clear"
    /\ UNCHANGED <<state, audioBuffer, cancelFuncs, ctxDone, transcript,
                   vadActive, triggered, absent, eventChan, reader, pipes,
                   sttCalls, ttsCalls, nEv, nIn, stopped, quiet, closed,
                   connOpen, clients, chanOpen, app, peerIn, vadIn,
                   connCloses,
                   vad>>

\* resetState: cs.audioBuffer = make([][]byte, 0); sendStatus enters
\* WriteMessage
RsBufferCall ==
    /\ reader.pc = "rs_buffer"
    /\ audioBuffer' = <<>>
    /\ writing' = BeginWrite(writing, ReaderTask)
    /\ reader' = [reader EXCEPT !.pc = "rs_write"]
    /\ UNCHANGED <<state, cancelFuncs, ctxDone, transcript, vadActive,
                   triggered, absent, eventChan, evpc, pipes, out, sttCalls,
                   ttsCalls, nEv, nIn, stopped, quiet, closed, connOpen,
                   clients, chanOpen, app, peerIn, vadIn, connCloses,
                   vad>>

\* the reader's WriteMessage returns; the command has been handled
RsWritten ==
    /\ reader.pc = "rs_write"
    /\ \E f \in WireFrames(ReaderTask, StatusMessage(StateIdle, "Ready")) :
          out' = WriteMessage(out, ReaderTask, f)
    /\ writing' = [writing EXCEPT ![ReaderTask] = "no"]
    /\ reader' = IdleReader
    /\ stopped' = IF reader.cmd = "stop"
                  THEN stopped \cup {p \in reader.seen : Running(p)}
                  ELSE stopped
    /\ quiet' = IF reader.cmd = "stop" THEN TRUE ELSE quiet
    /\ UNCHANGED <<state, audioBuffer, cancelFuncs, ctxDone, transcript,
                   vadActive, triggered, absent, eventChan, evpc, pipes,
                   sttCalls, ttsCalls, nEv, nIn, closed, connOpen, clients,
                   chanOpen, app, peerIn, vadIn, connCloses,
                   vad>>

(* The reader and the event loop with their writes as calls: the detector  *)
(* reports "start" and "continue" events while "reset" commands arrive.    *)

WriteNext ==
    \/ \E e \in {"start", "continue"} :
          nEv < MaxEvents /\ Len(eventChan) < MaxQueued /\ Emit(e)
    \/ \E answer \in BOOLEAN : EvStart(answer)
    \/ EvSetTriggeredCall
    \/ EvTriggeredWritten
    \/ EvTrigClear
    \/ EvContinue
    \/ nIn < MaxInbound /\ RdReset
    \/ RsFields
    \/ RsBufferCall
    \/ RsWritten

WriteSpec == Init /\ [][WriteNext]_vars

(* C36: at most one task is inside a write to the session's connection at  *)
(* any moment.                                                             *)

C36_OneWriterAtATime ==
    Cardinality({t \in Tasks : writing[t] # "no"}) <= 1

(* C37: from its registration until it returns, a pipeline whose context   *)
(* has not been cancelled has its own handle in the registry, and a        *)
(* registration replaces no handle of a pipeline that has not returned.    *)

Registers(p) == pipes[p].pc = "register" /\ pipes'[p].pc = "drain"

C37_OwnHandleRegistered ==
    /\ [](\A p \in Pipes :
             (pipes[p].pc \in {"drain", "stt_wait", "llm_wait", "fail",
                               "loop", "tts_wait", "tts_wait_last", "ret"}
              /\ p \notin ctxDone) => p \in Registered)
    /\ [][\A p \in Pipes :
             Registers(p) =>
                 \A q \in Registered : q = p \/ pipes[q].pc = "done"]_vars

(* C38: a synthesis call that fails (as an audio frame that cannot be      *)
(* written, it leaves no audio frame) does not end the run: the pipeline   *)
(* never sends an ERROR status; when the call for a sentence returns the   *)
(* pipeline is back in its loop and can receive the next fragment; when    *)
(* the run has returned, every fragment has been forwarded, every sentence *)
(* has been handed to synthesis, the session is IDLE and the last frame is *)
(* the IDLE status "Ready".                                                *)

C38_SynthesisFailureTolerated ==
    /\ [](ErrorStatuses(out, 1) = <<>>)
    /\ [][pipes[1].pc = "tts_wait" /\ pipes'[1].pc # "tts_wait" =>
             pipes'[1].pc = "loop"]_vars
    /\ [](pipes[1].pc = "loop" /\ pipes[1].pos < Len(pipes[1].script) =>
             ENABLED PRecv(1))
    /\ [](pipes[1].pc = "done" =>
             /\ state = StateIdle
             /\ out[1][Len(out[1])] = StatusMessage(StateIdle, "Ready")
             /\ Flatten(TextsOf(out, 1, "response")) =
                    Flatten(pipes[1].script)
             /\ absent = "none" =>
                    Flatten(ttsCalls[1]) = Flatten(pipes[1].script))

C38_Witness ==
    /\ absent = "none"
    /\ pipes[1].pc = "done"
    /\ pipes[1].script = HiScript
    /\ Len(ttsCalls[1]) = 2
    /\ TextsOf(out, 1, "audio") = <<ttsCalls[1][2]>>

----------------------------------------------------------------------------
(* The detector client step by step: receiveResponses receives a response  *)
(* and then offers its event to the channel; VadClientImpl.Close cancels   *)
(* the context and then closes the channel, without waiting for the        *)
(* receiver.                                                               *)

\* select { case <-c.ctx.Done(): ... default: resp, err := c.stream.Recv() }
\* with a response received
VadRecv(e) ==
    /\ absent # "vad"
    /\ vad.rx = "idle"
    /\ ~vad.cancelled
    /\ nEv < MaxEvents
    /\ Len(eventChan) < MaxQueued
    /\ vad' = [vad EXCEPT !.rx = "holding", !.event = e]
    /\ nEv' = nEv + 1
    /\ UNCHANGED <<state, audioBuffer, cancelFuncs, ctxDone, transcript,
                   vadActive, triggered, absent, eventChan, reader, evpc,
                   pipes, out, sttCalls, ttsCalls, nIn, stopped, quiet,
                   closed, connOpen, clients, chanOpen, app, peerIn, vadIn,
                   connCloses, writing>>

\* select { case c.eventChan <- VadEvent{...}: default: }; a send on a closed
\* channel panics
VadSend ==
    /\ vad.rx = "holding"
    /\ IF chanOpen
       THEN /\ eventChan' = Offer(eventChan, vad.event)
            /\ vad' = [vad EXCEPT !.rx = "idle", !.event = ""]
       ELSE /\ vad' = [vad EXCEPT !.rx = "panicked"]
            /\ UNCHANGED eventChan
    /\ quiet' = FALSE
    /\ UNCHANGED <<state, audioBuffer, cancelFuncs, ctxDone, transcript,
                   vadActive, triggered, absent, reader, evpc, pipes, out,
                   sttCalls, ttsCalls, nEv, nIn, stopped, closed, connOpen,
                   clients, chanOpen, app, peerIn, vadIn, connCloses,
                   writing>>

\* case <-c.ctx.Done(): return
VadReturn ==
    /\ vad.rx = "idle"
    /\ vad.cancelled
    /\ vad' = [vad EXCEPT !.rx = "returned"]
    /\ UNCHANGED <<state, audioBuffer, cancelFuncs, ctxDone, transcript,
                   vadActive, triggered, absent, eventChan, reader, evpc,
                   pipes, out, sttCalls, ttsCalls, nEv, nIn, stopped, quiet,
                   closed, connOpen, clients, chanOpen, app, peerIn, vadIn,
                   connCloses, writing>>

\* VadClientImpl.Close: c.cancel(); c.stream.CloseSend()
VadCancel ==
    /\ app = "closing"
    /\ ~vad.cancelled
    /\ vad' = [vad EXCEPT !.cancelled = TRUE]
    /\ UNCHANGED <<state, audioBuffer, cancelFuncs, ctxDone, transcript,
                   vadActive, triggered, absent, eventChan, reader, evpc,
                   pipes, out, sttCalls, ttsCalls, nEv, nIn, stopped, quiet,
                   closed, connOpen, clients, chanOpen, app, peerIn, vadIn,
                   connCloses, writing>>

\* VadClientImpl.Close: close(c.eventChan)
VadCloseChan ==
    /\ app = "closing"
    /\ vad.cancelled
    /\ chanOpen' = FALSE
    /\ app' = "down"
    /\ UNCHANGED <<state, audioBuffer, cancelFuncs, ctxDone, transcript,
                   vadActive, triggered, absent, eventChan, reader, evpc,
                   pipes, out, sttCalls, ttsCalls, nEv, nIn, stopped, quiet,
                   closed, connOpen, clients, peerIn, vadIn, connCloses,
                   writing, vad>>

(* The application shuts down while the detector client is receiving: the  *)
(* event loop takes the events, no pipeline gets to run.                   *)

VadCloseNext ==
    \/ \E e \in Events : VadRecv(e)
    \/ VadSend
    \/ VadReturn
    \/ EventLoop
    \/ EvClosed
    \/ AppCloseClients
    \/ VadCancel
    \/ VadCloseChan

VadCloseSpec == Init /\ [][VadCloseNext]_vars

(* C39: the detector client's receiver never sends on the event channel    *)
(* once the channel has been closed.                                       *)

C39_NoSendOnClosedChannel == vad.rx # "panicked"

====
